---------------------------- MODULE Spec2Model ----------------------------
(***************************************************************************)
(* Model of the calculator MCP server: the safe arithmetic evaluator of    *)
(* src/src/safe_eval.py (tokenize, infix_to_rpn, evaluate_rpn,             *)
(* safe_evaluate_expression) and the tool boundary calculator_tool of      *)
(* src/src/calculator_server.py.                                           *)
(*                                                                         *)
(* A string is a sequence of one-character strings.  A Python float is     *)
(* modelled by the exact rational <<n, d>> in lowest terms with d > 0:     *)
(* rounding, infinities and NaN are outside the model, the zero test       *)
(* op2 == 0 (which -0.0 passes as well) is the test n = 0.                 *)
(***************************************************************************)
EXTENDS Integers, Sequences, FiniteSets, TLC

VARIABLES entry, expression, fault, pc, stripped_expression, tokens,
          processed_tokens, rpn_expression, applied, ran, result, response,
          tables, calls, seen

vars == <<entry, expression, fault, pc, stripped_expression, tokens,
          processed_tokens, rpn_expression, applied, ran, result, response,
          tables, calls, seen>>

(***************************************************************************)
(* Bounds of the enumerated inputs.                                        *)
(***************************************************************************)
\* longest input over the whole alphabet (digits, '.', operators, blank, '@')
MaxLen == 4
\* longest input over the characters 0 2 + - * /
MaxExprLen == 5
\* longest input over the characters 0 2 - / ( )
MaxNestLen == 5
\* longest input of a call in which a stage raises an unanticipated exception
MaxFaultLen == 2
\* most calls of safe_evaluate_expression made one after another in a process
MaxCalls == 3
\* longest input over the characters 2 . - ( ) blank @
MaxBlankLen == 4

(***************************************************************************)
(* Characters.                                                             *)
(***************************************************************************)
Digits == {"0", "1", "2", "3", "4", "5", "6", "7", "8", "9"}

DigitValue(c) ==
    CASE c = "0" -> 0 [] c = "1" -> 1 [] c = "2" -> 2 [] c = "3" -> 3
      [] c = "4" -> 4 [] c = "5" -> 5 [] c = "6" -> 6 [] c = "7" -> 7
      [] c = "8" -> 8 [] c = "9" -> 9

OperatorChars == {"+", "-", "*", "/", "(", ")"}

\* no character counts as whitespace
Whitespace_None == {}

Whitespace == {" "}

(***************************************************************************)
(* Floats as rationals.                                                    *)
(***************************************************************************)
Abs(x) == IF x < 0 THEN -x ELSE x

RECURSIVE Gcd(_, _)
Gcd(a, b) == IF b = 0 THEN a ELSE Gcd(b, a % b)

Rat(n, d) ==
    LET s == IF d < 0 THEN -1 ELSE 1
        g == Gcd(Abs(n), Abs(d))
    IN  <<(s * n) \div g, (s * d) \div g>>

RECURSIVE Pow10(_)
Pow10(k) == IF k = 0 THEN 1 ELSE 10 * Pow10(k - 1)

RECURSIVE DigitsToNat(_)
DigitsToNat(ds) ==
    IF ds = <<>> THEN 0
    ELSE 10 * DigitsToNat(SubSeq(ds, 1, Len(ds) - 1)) + DigitValue(ds[Len(ds)])

\* float(value) for a text matched by the NUMBER pattern
ParseFloat(text) ==
    LET dots == {i \in 1..Len(text) : text[i] = "."}
        dot  == IF dots = {} THEN Len(text) + 1 ELSE CHOOSE i \in dots : TRUE
        ip   == SubSeq(text, 1, dot - 1)
        fp   == SubSeq(text, dot + 1, Len(text))
    IN  Rat(DigitsToNat(ip \o fp), Pow10(Len(fp)))

Neg(a) == <<-a[1], a[2]>>
add(a, b) == Rat(a[1] * b[2] + b[1] * a[2], a[2] * b[2])
sub(a, b) == Rat(a[1] * b[2] - b[1] * a[2], a[2] * b[2])
mul(a, b) == Rat(a[1] * b[1], a[2] * b[2])
truediv(a, b) == Rat(a[1] * b[2], a[2] * b[1])
IsZero(a) == a[1] = 0

(***************************************************************************)
(* Tokens: a float or a one-character operator string.                     *)
(***************************************************************************)
Number(v) == [kind |-> "NUMBER", sym |-> "", val |-> v]
Symbol(c) == [kind |-> "OPERATOR", sym |-> c, val |-> <<0, 1>>]

IsNumber(t) == t.kind = "NUMBER"
IsSym(t, cs) == t.kind = "OPERATOR" /\ t.sym \in cs

(***************************************************************************)
(* Exceptions.                                                             *)
(***************************************************************************)
Parent(c) ==
    CASE c = "UnbalancedParenthesesError" -> "InvalidExpressionError"
      [] c = "UnknownCharacterError" -> "InvalidExpressionError"
      [] c = "InvalidExpressionError" -> "SafeEvalError"
      [] c = "DivisionByZeroError" -> "SafeEvalError"
      [] c = "SafeEvalError" -> "Exception"
      [] OTHER -> "Exception"

RECURSIVE IsInstance(_, _)
IsInstance(c, cls) ==
    \/ c = cls
    \/ c # "Exception" /\ IsInstance(Parent(c), cls)

\* an outcome of a stage or of the evaluator: a value or a raised exception
Ok(v) == [kind |-> "ok", val |-> v, msg |-> <<>>]
Raise(cls, msg) == [kind |-> cls, val |-> <<0, 1>>, msg |-> msg]
NoOutcome == [kind |-> "none", val |-> <<0, 1>>, msg |-> <<>>]


\* the text of an unanticipated failure raised inside a stage
FaultText == "out of memory"

StageOk(out) == [exc |-> NoOutcome, out |-> out]
StageRaise(cls, msg) == [exc |-> Raise(cls, msg), out |-> <<>>]

(***************************************************************************)
(* tokenize                                                                *)
(***************************************************************************)
RECURSIVE DigitRun(_, _)
\* number of consecutive digits of e from position pos on
DigitRun(e, pos) ==
    IF pos <= Len(e) /\ e[pos] \in Digits THEN 1 + DigitRun(e, pos + 1) ELSE 0

\* re.match(tok_regex, expression[current_pos:]): the first alternative that
\* matches at pos, and the length of its (greedy) match
Match(e, pos) ==
    LET c  == e[pos]
        n1 == DigitRun(e, pos)
        n2 == DigitRun(e, pos + 1)
    IN  IF c \in Digits
        THEN IF pos + n1 <= Len(e) /\ e[pos + n1] = "."
             THEN [kind |-> "NUMBER", len |-> n1 + 1 + DigitRun(e, pos + n1 + 1)]
             ELSE [kind |-> "NUMBER", len |-> n1]
        ELSE IF c = "." /\ n2 >= 1
        THEN [kind |-> "NUMBER", len |-> 1 + n2]
        ELSE IF c \in OperatorChars
        THEN [kind |-> "OPERATOR", len |-> 1]
        ELSE IF c \in Whitespace
        THEN [kind |-> "SPACE",
              len |-> CHOOSE k \in 1..(Len(e) - pos + 1) :
                         /\ \A j \in pos..(pos + k - 1) : e[j] \in Whitespace
                         /\ (pos + k > Len(e) \/ e[pos + k] \notin Whitespace)]
        ELSE [kind |-> "MISMATCH", len |-> 1]

RECURSIVE TokenizeFrom(_, _, _)
\* the while loop of tokenize; pos is current_pos + 1
TokenizeFrom(e, pos, toks) ==
    IF pos > Len(e) THEN StageOk(toks)
    ELSE LET mo    == Match(e, pos)
             value == SubSeq(e, pos, pos + mo.len - 1)
         IN  CASE mo.kind = "NUMBER" ->
                    TokenizeFrom(e, pos + mo.len, Append(toks, Number(ParseFloat(value))))
               [] mo.kind = "OPERATOR" ->
                    TokenizeFrom(e, pos + mo.len, Append(toks, Symbol(value[1])))
               [] mo.kind = "SPACE" ->
                    TokenizeFrom(e, pos + mo.len, toks)
               [] mo.kind = "MISMATCH" ->
                    [exc |-> [Raise("UnknownCharacterError",
                                    <<"Unknown character '", value[1], "' in expression">>)
                                EXCEPT !.val = <<pos - 1, 1>>],
                     out |-> <<>>]

tokenize(e, flt) ==
    IF flt = "tokenize" THEN StageRaise("MemoryError", <<FaultText>>)
    ELSE TokenizeFrom(e, 1, <<>>)

(***************************************************************************)
(* infix_to_rpn                                                            *)
(***************************************************************************)
\* the module-level dictionaries as they are when the module is imported;
\* the functions of the operator module are named by their names
ModuleTables ==
    [PRECEDENCE    |-> [op \in {"+", "-", "*", "/"} |-> IF op \in {"+", "-"} THEN 1 ELSE 2],
     ASSOCIATIVITY |-> [op \in {"+", "-", "*", "/"} |-> "L"],
     OPERATORS     |-> [op \in {"+", "-", "*", "/"} |->
                           CASE op = "+" -> "add" [] op = "-" -> "sub"
                             [] op = "*" -> "mul" [] op = "/" -> "truediv"]]

\* PRECEDENCE.get(op, 0), read from the dictionary at the time of the call
PRECEDENCE(op) == IF op \in DOMAIN tables.PRECEDENCE THEN tables.PRECEDENCE[op] ELSE 0

\* ASSOCIATIVITY[op]
ASSOCIATIVITY(op) == tables.ASSOCIATIVITY[op]

\* IsUnary without the test of the preceding token (line 84)
IsUnary_AnyPosition(ts, i) ==
    /\ IsSym(ts[i], {"+", "-"})
    /\ i + 1 <= Len(ts) /\ IsNumber(ts[i + 1])

\* IsUnary without the test that the next token is a number (line 85)
IsUnary_NoLookahead(ts, i) ==
    /\ IsSym(ts[i], {"+", "-"})
    /\ (i = 1 \/ IsSym(ts[i - 1], {"(", "+", "-", "*", "/"}))
    /\ i + 1 <= Len(ts)

\* the test of lines 83-86 for the token at index i (1-based)
IsUnary(ts, i) ==
    /\ IsSym(ts[i], {"+", "-"})
    /\ (i = 1 \/ IsSym(ts[i - 1], {"(", "+", "-", "*", "/"}))
    /\ i + 1 <= Len(ts) /\ IsNumber(ts[i + 1])

RECURSIVE UnaryFold_DropStraySign(_, _, _)
\* UnaryFold that appends nothing for a sign that has no operand to its left
\* and no number to its right
UnaryFold_DropStraySign(ts, i, processed) ==
    IF i > Len(ts) THEN processed
    ELSE IF IsUnary(ts, i)
         THEN IF ts[i].sym = "-"
              THEN UnaryFold_DropStraySign(ts, i + 2,
                                           Append(processed, Number(Neg(ts[i + 1].val))))
              ELSE UnaryFold_DropStraySign(ts, i + 2, Append(processed, ts[i + 1]))
         ELSE IF /\ IsSym(ts[i], {"+", "-"})
                 /\ (i = 1 \/ IsSym(ts[i - 1], {"(", "+", "-", "*", "/"}))
              THEN UnaryFold_DropStraySign(ts, i + 1, processed)
              ELSE UnaryFold_DropStraySign(ts, i + 1, Append(processed, ts[i]))

RECURSIVE UnaryFold(_, _, _)
\* the first loop of infix_to_rpn
UnaryFold(ts, i, processed) ==
    IF i > Len(ts) THEN processed
    ELSE IF IsUnary(ts, i)
         THEN IF ts[i].sym = "-"
              THEN UnaryFold(ts, i + 2, Append(processed, Number(Neg(ts[i + 1].val))))
              ELSE UnaryFold(ts, i + 2, Append(processed, ts[i + 1]))
         ELSE UnaryFold(ts, i + 1, Append(processed, ts[i]))

\* PopsBefore without the equal-precedence case: operators group right to left
PopsBefore_StrictOnly(top, token) ==
    /\ top # "("
    /\ PRECEDENCE(top) > PRECEDENCE(token)

\* the while condition of lines 103-105
PopsBefore(top, token) ==
    /\ top # "("
    /\ \/ PRECEDENCE(top) > PRECEDENCE(token)
       \/ PRECEDENCE(top) = PRECEDENCE(token) /\ ASSOCIATIVITY(token) = "L"

RECURSIVE PopOperators(_, _, _)
\* lines 103-106: moves operators from the stack (top last) to the queue
PopOperators(token, out, stack) ==
    IF stack # <<>> /\ PopsBefore(stack[Len(stack)], token)
    THEN PopOperators(token, Append(out, Symbol(stack[Len(stack)])),
                      SubSeq(stack, 1, Len(stack) - 1))
    ELSE [out |-> out, stack |-> stack]

RECURSIVE PopToParen(_, _)
\* lines 111-112
PopToParen(out, stack) ==
    IF stack # <<>> /\ stack[Len(stack)] # "("
    THEN PopToParen(Append(out, Symbol(stack[Len(stack)])), SubSeq(stack, 1, Len(stack) - 1))
    ELSE [out |-> out, stack |-> stack]

RECURSIVE Drain_NoParenCheck(_, _)
\* Drain without the test of line 120: a left parenthesis is moved to the queue
Drain_NoParenCheck(out, stack) ==
    IF stack = <<>> THEN StageOk(out)
    ELSE Drain_NoParenCheck(Append(out, Symbol(stack[Len(stack)])),
                            SubSeq(stack, 1, Len(stack) - 1))

RECURSIVE Drain(_, _)
\* lines 119-123
Drain(out, stack) ==
    IF stack = <<>> THEN StageOk(out)
    ELSE IF stack[Len(stack)] = "("
         THEN StageRaise("UnbalancedParenthesesError",
                         <<"Mismatched or missing right parenthesis.">>)
         ELSE Drain(Append(out, Symbol(stack[Len(stack)])), SubSeq(stack, 1, Len(stack) - 1))

RECURSIVE ShuntingYard(_, _, _, _)
\* lines 99-123
ShuntingYard(ts, i, out, stack) ==
    IF i > Len(ts) THEN Drain(out, stack)
    ELSE LET token == ts[i] IN
         IF IsNumber(token) THEN ShuntingYard(ts, i + 1, Append(out, token), stack)
         ELSE IF token.sym \in DOMAIN tables.PRECEDENCE
         THEN LET p == PopOperators(token.sym, out, stack)
              IN  ShuntingYard(ts, i + 1, p.out, Append(p.stack, token.sym))
         ELSE IF token.sym = "("
         THEN ShuntingYard(ts, i + 1, out, Append(stack, "("))
         ELSE IF token.sym = ")"
         THEN LET p == PopToParen(out, stack)
              IN  IF p.stack = <<>>
                  THEN StageRaise("UnbalancedParenthesesError",
                                  <<"Mismatched or missing left parenthesis.">>)
                  ELSE ShuntingYard(ts, i + 1, p.out, SubSeq(p.stack, 1, Len(p.stack) - 1))
         ELSE StageRaise("InvalidExpressionError",
                         <<"Unknown token during RPN conversion">>)

\* output_queue kept at module level and never cleared: it still holds the
\* queue the previous call built
output_queue_Shared == rpn_expression

\* line 76: the queue is a new empty list in every call
output_queue == <<>>

infix_to_rpn(ts, flt) ==
    IF flt = "infix_to_rpn" THEN StageRaise("MemoryError", <<FaultText>>)
    ELSE ShuntingYard(UnaryFold(ts, 1, <<>>), 1, output_queue, <<>>)

(***************************************************************************)
(* evaluate_rpn                                                            *)
(***************************************************************************)
\* OPERATORS[token](op1, op2), raising as the operator module does
OPERATORS(token, op1, op2, flt) ==
    IF flt = "operator" THEN Raise("MemoryError", <<FaultText>>)
    ELSE LET f == tables.OPERATORS[token] IN
         CASE f = "add" -> Ok(add(op1, op2))
           [] f = "sub" -> Ok(sub(op1, op2))
           [] f = "mul" -> Ok(mul(op1, op2))
           [] f = "truediv" -> IF IsZero(op2)
                             THEN Raise("ZeroDivisionError", <<"float division by zero">>)
                             ELSE Ok(truediv(op1, op2))

\* the test of line 140 dropped: the division is always attempted
DivisionGuard_Never(token, op2) == FALSE

\* line 140
DivisionGuard(token, op2) == token = "/" /\ IsZero(op2)

RECURSIVE EvalFrom(_, _, _, _, _)
\* lines 132-153; stack holds the operands, top last; done records, for each
\* operator that found its two operands, the operands popped at lines 138-139
\* and whether line 143 applied the operator to them
EvalFrom(rpn, i, stack, done, flt) ==
    IF i > Len(rpn)
    THEN IF Len(stack) # 1
         THEN [exc |-> Raise("InvalidExpressionError",
                             <<"Invalid RPN expression: stack should have 1 result">>),
               done |-> done]
         ELSE [exc |-> Ok(stack[1]), done |-> done]
    ELSE LET token == rpn[i] IN
         IF IsNumber(token) THEN EvalFrom(rpn, i + 1, Append(stack, token.val), done, flt)
         ELSE IF token.sym \in DOMAIN tables.OPERATORS
         THEN IF Len(stack) < 2
              THEN [exc |-> Raise("InvalidExpressionError",
                                  <<"Invalid RPN expression: not enough operands for operator.">>),
                    done |-> done]
              ELSE LET op2  == stack[Len(stack)]
                       op1  == stack[Len(stack) - 1]
                       rest == SubSeq(stack, 1, Len(stack) - 2)
                   IN  IF DivisionGuard(token.sym, op2)
                       THEN [exc |-> Raise("DivisionByZeroError",
                                           <<"Division by zero in expression.">>),
                             done |-> Append(done, [op |-> token.sym, op1 |-> op1,
                                                    op2 |-> op2, applied |-> FALSE])]
                       ELSE LET r  == OPERATORS(token.sym, op1, op2, flt)
                                d2 == Append(done, [op |-> token.sym, op1 |-> op1,
                                                    op2 |-> op2, applied |-> TRUE])
                            IN  IF r.kind = "ok"
                                THEN EvalFrom(rpn, i + 1, Append(rest, r.val), d2, flt)
                                ELSE [exc |-> Raise("SafeEvalError",
                                                    <<"Error during operation: ">> \o r.msg),
                                      done |-> d2]
         ELSE [exc |-> Raise("InvalidExpressionError", <<"Unknown token in RPN expression">>),
               done |-> done]

evaluate_rpn(rpn, flt) ==
    IF flt = "evaluate_rpn"
    THEN [exc |-> Raise("MemoryError", <<FaultText>>), done |-> <<>>]
    ELSE EvalFrom(rpn, 1, <<>>, <<>>, flt)

(***************************************************************************)
(* safe_evaluate_expression                                                *)
(***************************************************************************)
RECURSIVE lstrip(_)
lstrip(e) == IF e # <<>> /\ e[1] \in Whitespace THEN lstrip(Tail(e)) ELSE e

RECURSIVE rstrip(_)
rstrip(e) ==
    IF e # <<>> /\ e[Len(e)] \in Whitespace THEN rstrip(SubSeq(e, 1, Len(e) - 1)) ELSE e

\* strip that leaves the string as it is
strip_Identity(e) == e

\* str.strip()
strip(e) == rstrip(lstrip(e))

\* Reraise without the clause of lines 184-185: every exception passes as it is
Reraise_NoWrap(exc) == exc

\* Reraise without the clause of lines 182-183: every exception is rewrapped
Reraise_AlwaysWrap(exc) ==
    Raise("SafeEvalError",
          <<"An unexpected error occurred during evaluation: ", exc.kind, " - ">>
              \o exc.msg)

\* the except clauses of lines 182-185, applied to an exception raised in the try
Reraise(exc) ==
    IF IsInstance(exc.kind, "SafeEvalError") THEN exc
    ELSE Raise("SafeEvalError",
               <<"An unexpected error occurred during evaluation: ", exc.kind, " - ">>
                   \o exc.msg)

NoResponse ==
    [kind |-> "none", code |-> 0, message |-> <<>>, value |-> <<0, 1>>,
     input_expression |-> [type |-> "none", s |-> <<>>], error_details |-> <<>>]

\* the values of an argument: a str, or an object that is no str with its str() text
Str(s) == [type |-> "str", s |-> s]
NonStrings ==
    { [type |-> "int", s |-> <<"1", "2", "3">>],
      [type |-> "NoneType", s |-> <<"N", "o", "n", "e">>],
      [type |-> "list", s |-> <<"[", "1", ",", " ", "'", "+", "'", ",", " ", "1", "]">>] }

\* lines 159-164
SafeEvalEnter ==
    /\ pc = "safe_evaluate_expression"
    /\ IF expression.type # "str"
       THEN /\ result' = Raise("TypeError", <<"Expression must be a string.">>)
            /\ pc' = "returned"
            /\ UNCHANGED <<stripped_expression, ran>>
       ELSE /\ stripped_expression' = strip(expression.s)
            /\ ran' = Append(ran, "strip")
            /\ IF strip(expression.s) = <<>>
               THEN /\ result' = Raise("InvalidExpressionError",
                                       <<"Expression cannot be empty or just whitespace.">>)
                    /\ pc' = "returned"
               ELSE /\ result' = result
                    /\ pc' = "tokenize"
    /\ UNCHANGED <<tables, calls, seen, entry, expression, fault, tokens, processed_tokens, rpn_expression,
                   applied, response>>

\* lines 167-170, and 182-185 when tokenize raises
SafeEvalTokenize ==
    /\ pc = "tokenize"
    /\ LET t == tokenize(stripped_expression, fault)
       IN  /\ ran' = Append(ran, "tokenize")
           /\ IF t.exc.kind # "none"
              THEN /\ result' = Reraise(t.exc)
                   /\ pc' = "returned"
                   /\ tokens' = tokens
              ELSE /\ tokens' = t.out
                   /\ IF t.out = <<>>
                      THEN /\ result' = Raise("InvalidExpressionError",
                                <<"Expression contains no evaluable tokens after tokenization">>)
                           /\ pc' = "returned"
                      ELSE /\ result' = result
                           /\ pc' = "infix_to_rpn"
    /\ UNCHANGED <<tables, calls, seen, entry, expression, fault, stripped_expression, processed_tokens,
                   rpn_expression, applied, response>>

\* lines 172-178, and 182-185 when infix_to_rpn raises
SafeEvalInfixToRpn ==
    /\ pc = "infix_to_rpn"
    /\ LET r == infix_to_rpn(tokens, fault)
       IN  /\ ran' = Append(ran, "infix_to_rpn")
           /\ processed_tokens' =
                  IF fault = "infix_to_rpn" THEN processed_tokens
                  ELSE UnaryFold(tokens, 1, <<>>)
           /\ IF r.exc.kind # "none"
              THEN /\ result' = Reraise(r.exc)
                   /\ pc' = "returned"
                   /\ rpn_expression' = rpn_expression
              ELSE /\ rpn_expression' = r.out
                   /\ IF r.out = <<>>
                      THEN /\ result' =
                                IF \E i \in 1..Len(tokens) : IsNumber(tokens[i])
                                THEN Raise("InvalidExpressionError",
                                       <<"Expression with numbers resulted in empty RPN (e.g. '5 ()').">>)
                                ELSE Raise("InvalidExpressionError",
                                       <<"Expression results in empty RPN or has no evaluable content">>)
                           /\ pc' = "returned"
                      ELSE /\ result' = result
                           /\ pc' = "evaluate_rpn"
    /\ UNCHANGED <<tables, calls, seen, entry, expression, fault, stripped_expression, tokens, applied, response>>

\* lines 180-181, and 182-185 when evaluate_rpn raises
SafeEvalEvaluateRpn ==
    /\ pc = "evaluate_rpn"
    /\ LET r == evaluate_rpn(rpn_expression, fault)
       IN  /\ ran' = Append(ran, "evaluate_rpn")
           /\ applied' = r.done
           /\ result' = IF r.exc.kind = "ok" THEN r.exc ELSE Reraise(r.exc)
           /\ pc' = "returned"
    /\ UNCHANGED <<tables, calls, seen, entry, expression, fault, stripped_expression, tokens, processed_tokens,
                   rpn_expression, response>>

\* lines 157-185 as a function of a str argument: the outcome of the call when
\* no stage meets an unanticipated failure
safe_evaluate_expression(e) ==
    LET s == strip(e) IN
    IF s = <<>>
    THEN Raise("InvalidExpressionError", <<"Expression cannot be empty or just whitespace.">>)
    ELSE LET t == tokenize(s, "none") IN
         IF t.exc.kind # "none" THEN Reraise(t.exc)
         ELSE IF t.out = <<>>
         THEN Raise("InvalidExpressionError",
                    <<"Expression contains no evaluable tokens after tokenization">>)
         ELSE LET r == infix_to_rpn(t.out, "none") IN
              IF r.exc.kind # "none" THEN Reraise(r.exc)
              ELSE IF r.out = <<>>
              THEN IF \E i \in 1..Len(t.out) : IsNumber(t.out[i])
                   THEN Raise("InvalidExpressionError",
                          <<"Expression with numbers resulted in empty RPN (e.g. '5 ()').">>)
                   ELSE Raise("InvalidExpressionError",
                          <<"Expression results in empty RPN or has no evaluable content">>)
              ELSE LET v == evaluate_rpn(r.out, "none").exc IN
                   IF v.kind = "ok" THEN v ELSE Reraise(v)

(***************************************************************************)
(* calculator_tool                                                         *)
(***************************************************************************)
ERROR_INVALID_ARITHMETIC_EXPRESSION == -32000
ERROR_DIVISION_BY_ZERO == -32001
ERROR_INVALID_PARAMS == -32602
ERROR_INTERNAL == -32603

FastMCPError(message, code, input, details) ==
    [kind |-> "FastMCPError", code |-> code, message |-> message, value |-> <<0, 1>>,
     input_expression |-> input, error_details |-> details]

\* lines 44-48: the type check, then the call of safe_evaluate_expression
CalculatorToolCall ==
    /\ pc = "calculator_tool"
    /\ IF expression.type # "str"
       THEN /\ response' = FastMCPError(<<"Invalid input: expression must be a string.">>,
                                        ERROR_INVALID_PARAMS, Str(expression.s), <<>>)
            /\ pc' = "done"
       ELSE /\ response' = response
            /\ pc' = "safe_evaluate_expression"
    /\ UNCHANGED <<tables, calls, seen, entry, expression, fault, stripped_expression, tokens, processed_tokens,
                   rpn_expression, applied, ran, result>>

\* ToolResponse with the first two except clauses in the other order
ToolResponse_InvalidFirst(res, expr) ==
    IF res.kind = "ok"
    THEN [NoResponse EXCEPT !.kind = "return", !.value = res.val]
    ELSE IF IsInstance(res.kind, "SafeEvalError")
    THEN FastMCPError(res.msg, ERROR_INVALID_ARITHMETIC_EXPRESSION, expr, <<>>)
    ELSE IF IsInstance(res.kind, "DivisionByZeroError")
    THEN FastMCPError(res.msg, ERROR_DIVISION_BY_ZERO, expr, <<>>)
    ELSE FastMCPError(<<"An unexpected internal error occurred.">>, ERROR_INTERNAL,
                      expr, res.msg)

\* lines 49-62: the return value or the except clause that the outcome selects
ToolResponse(res, expr) ==
    IF res.kind = "ok"
    THEN [NoResponse EXCEPT !.kind = "return", !.value = res.val]
    ELSE IF IsInstance(res.kind, "DivisionByZeroError")
    THEN FastMCPError(res.msg, ERROR_DIVISION_BY_ZERO, expr, <<>>)
    ELSE IF \/ IsInstance(res.kind, "InvalidExpressionError")
            \/ IsInstance(res.kind, "UnbalancedParenthesesError")
            \/ IsInstance(res.kind, "UnknownCharacterError")
    THEN FastMCPError(res.msg, ERROR_INVALID_ARITHMETIC_EXPRESSION, expr, <<>>)
    ELSE IF IsInstance(res.kind, "SafeEvalError")
    THEN FastMCPError(res.msg, ERROR_INVALID_ARITHMETIC_EXPRESSION, expr, <<>>)
    ELSE FastMCPError(<<"An unexpected internal error occurred.">>, ERROR_INTERNAL,
                      expr, res.msg)

CalculatorToolReturn ==
    /\ pc = "returned"
    /\ entry = "calculator_tool"
    /\ response' = ToolResponse(result, expression)
    /\ pc' = "done"
    /\ UNCHANGED <<tables, calls, seen, entry, expression, fault, stripped_expression, tokens, processed_tokens,
                   rpn_expression, applied, ran, result>>

(***************************************************************************)
(* Inputs                                                                  *)
(***************************************************************************)
Alphabet == {"0", "2", ".", "+", "-", "*", "/", "(", ")", " ", "@"}
ExprAlphabet == {"0", "2", "+", "-", "*", "/"}
NestAlphabet == {"0", "2", "-", "/", "(", ")"}

StringsOver(A, n) == UNION { [1..k -> A] : k \in 0..n }

\* the expressions of tests/test_safe_eval.py and tests/test_calculator_tool.py
\* that the enumerated strings do not contain, and the example "5 ()" of the
\* message of line 176
TestExpressions ==
    { <<"5", " ", "(", ")">>,
      <<"(", "2", " ", "+", " ", "3", ")", " ", "*", " ", "4">>,
      <<"1", "0", ".", "5", " ", "+", " ", "2", ".", "5">>,
      <<" ", " ", "1", " ", "+", " ", " ", " ", "1", " ", " ">>,
      <<".", "5", " ", "+", " ", ".", "5">>,
      <<"1", " ", "-", " ", "-", "1">>,
      <<"-", "1", "0", " ", "/", " ", "-", "2">>,
      <<"-", "5", ".", "5", " ", "*", " ", "2">>,
      <<"(", "5", "-", "3", ")", "*", "8", "/", "4">>,
      <<"1", " ", "+", " ", "(", " ", ")">>,
      <<"(", "1", " ", "+", " ", "2">>,
      <<"1", ".", "2", ".", "3">>,
      <<"1", " ", "/", " ", "0">>,
      <<"5", "*", "-", "2">>,
      <<"1", "/", "3">> }

\* longer inputs of fixed shapes: a group beside an operator, and a sign
\* directly before a group
ShapeDigits == {"0", "2", "3"}
BinaryOps == {"+", "-", "*", "/"}
Signs == {"+", "-"}

GroupShapes ==
    UNION { { <<"(", a, o, b, ")", p, c>>, <<a, o, "(", b, p, c, ")">> } :
            <<a, b, c, o, p>> \in
                ShapeDigits \X ShapeDigits \X ShapeDigits \X BinaryOps \X BinaryOps }

SignedGroupShapes ==
    UNION { { <<s, "(", a, ")", o, b>>, <<a, o, s, "(", b, ")">>,
              <<s, "(", a, o, b, ")">>, <<"(", s, "(", a, ")", ")">>,
              <<a, o, b, o, s, "(", b, ")">> } :
            <<a, b, o, s>> \in ShapeDigits \X ShapeDigits \X BinaryOps \X Signs }

Faults == {"tokenize", "infix_to_rpn", "evaluate_rpn", "operator"}

Strings ==
    StringsOver(Alphabet, MaxLen) \cup StringsOver(ExprAlphabet, MaxExprLen)
        \cup StringsOver(NestAlphabet, MaxNestLen) \cup TestExpressions
        \cup GroupShapes \cup SignedGroupShapes

Init ==
    /\ entry \in {"calculator_tool", "safe_evaluate_expression"}
    /\ \/ /\ expression \in { Str(s) : s \in Strings }
          /\ entry = "calculator_tool"
          /\ fault = "none"
       \/ /\ expression \in { Str(s) : s \in StringsOver(Alphabet, MaxFaultLen) }
          /\ entry = "calculator_tool"
          /\ fault \in Faults
       \/ /\ expression \in NonStrings \cup { Str(s) : s \in StringsOver(Alphabet, MaxFaultLen) }
          /\ fault = "none"
    /\ pc = entry
    /\ stripped_expression = <<>>
    /\ tokens = <<>>
    /\ processed_tokens = <<>>
    /\ rpn_expression = <<>>
    /\ applied = <<>>
    /\ ran = <<>>
    /\ result = NoOutcome
    /\ response = NoResponse
    /\ tables = ModuleTables
    /\ calls = 1
    /\ seen = <<>>

Next ==
    \/ CalculatorToolCall
    \/ SafeEvalEnter
    \/ SafeEvalTokenize
    \/ SafeEvalInfixToRpn
    \/ SafeEvalEvaluateRpn
    \/ CalculatorToolReturn

Spec == Init /\ [][Next]_vars

(***************************************************************************)
(* Several calls of safe_evaluate_expression, one after another in one     *)
(* process, as the parametrized tests make them.  The locals of a call     *)
(* that has returned are garbage: the model leaves them as they were, the  *)
(* next call has to overwrite what it reads.  seen keeps, for every input  *)
(* of an earlier call, the outcome of its latest call.                     *)
(***************************************************************************)
CallExpressions == TestExpressions

InitCalls ==
    /\ entry = "safe_evaluate_expression"
    /\ expression \in { Str(s) : s \in CallExpressions }
    /\ fault = "none"
    /\ pc = entry
    /\ stripped_expression = <<>>
    /\ tokens = <<>>
    /\ processed_tokens = <<>>
    /\ rpn_expression = <<>>
    /\ applied = <<>>
    /\ ran = <<>>
    /\ result = NoOutcome
    /\ response = NoResponse
    /\ tables = ModuleTables
    /\ calls = 1
    /\ seen = <<>>

\* the call has returned or raised; the caller makes the next call
NewCall ==
    /\ pc = "returned"
    /\ entry = "safe_evaluate_expression"
    /\ calls < MaxCalls
    /\ calls' = calls + 1
    /\ seen' = [e \in DOMAIN seen \cup {expression.s} |->
                    IF e = expression.s THEN result ELSE seen[e]]
    /\ expression' \in { Str(s) : s \in CallExpressions }
    /\ pc' = "safe_evaluate_expression"
    /\ ran' = <<>>
    /\ result' = NoOutcome
    /\ UNCHANGED <<tables, entry, fault, stripped_expression, tokens, processed_tokens,
                   rpn_expression, applied, response>>

NextCalls ==
    \/ SafeEvalEnter
    \/ SafeEvalTokenize
    \/ SafeEvalInfixToRpn
    \/ SafeEvalEvaluateRpn
    \/ NewCall

SpecCalls == InitCalls /\ [][NextCalls]_vars

(***************************************************************************)
(* Calls whose inputs are built around blanks: every string up to          *)
(* MaxBlankLen over a digit, the point, a sign, the parentheses, the blank *)
(* and an unsupported character, and the expressions of the tests.         *)
(***************************************************************************)
BlankAlphabet == {"2", ".", "-", "(", ")", " ", "@"}

InitBlanks ==
    /\ entry \in {"calculator_tool", "safe_evaluate_expression"}
    /\ expression \in { Str(s) : s \in StringsOver(BlankAlphabet, MaxBlankLen)
                                          \cup TestExpressions }
    /\ fault = "none"
    /\ pc = entry
    /\ stripped_expression = <<>>
    /\ tokens = <<>>
    /\ processed_tokens = <<>>
    /\ rpn_expression = <<>>
    /\ applied = <<>>
    /\ ran = <<>>
    /\ result = NoOutcome
    /\ response = NoResponse
    /\ tables = ModuleTables
    /\ calls = 1
    /\ seen = <<>>

SpecBlanks == InitBlanks /\ [][Next]_vars

(***************************************************************************)
(* The standard evaluation of an infix token sequence, by recursive        *)
(* descent over the grammar                                                *)
(*     expr   ::= term   { additive-operator term }                        *)
(*     term   ::= factor { multiplicative-operator factor }                *)
(*     factor ::= number | sign number | ( expr ) | sign ( expr )          *)
(* with left-to-right grouping.  dz tells that some division has a zero    *)
(* right operand, ug that a sign stands directly before a group.           *)
(***************************************************************************)
Unparsed == [ok |-> FALSE, pos |-> 0, val |-> <<0, 1>>, dz |-> FALSE, ug |-> FALSE]

Parsed(pos, val, dz, ug) == [ok |-> TRUE, pos |-> pos, val |-> val, dz |-> dz, ug |-> ug]

Signed(sign, v) == IF sign = "-" THEN Neg(v) ELSE v

StdApply(op, l, r) ==
    IF l.dz \/ r.dz \/ (op = "/" /\ IsZero(r.val))
    THEN Parsed(r.pos, <<0, 1>>, TRUE, l.ug \/ r.ug)
    ELSE Parsed(r.pos,
                CASE op = "+" -> Rat(l.val[1] * r.val[2] + r.val[1] * l.val[2], l.val[2] * r.val[2])
                  [] op = "-" -> Rat(l.val[1] * r.val[2] - r.val[1] * l.val[2], l.val[2] * r.val[2])
                  [] op = "*" -> Rat(l.val[1] * r.val[1], l.val[2] * r.val[2])
                  [] op = "/" -> Rat(l.val[1] * r.val[2], l.val[2] * r.val[1]),
                FALSE, l.ug \/ r.ug)

RECURSIVE StdExpr(_, _)
RECURSIVE StdExprRest(_, _)
RECURSIVE StdTerm(_, _)
RECURSIVE StdTermRest(_, _)
RECURSIVE StdFactor(_, _)

StdFactor(ts, i) ==
    IF i > Len(ts) THEN Unparsed
    ELSE IF IsNumber(ts[i]) THEN Parsed(i + 1, ts[i].val, FALSE, FALSE)
    ELSE IF IsSym(ts[i], {"+", "-"}) /\ i + 1 <= Len(ts) /\ IsNumber(ts[i + 1])
    THEN Parsed(i + 2, Signed(ts[i].sym, ts[i + 1].val), FALSE, FALSE)
    ELSE IF IsSym(ts[i], {"+", "-"}) /\ i + 1 <= Len(ts) /\ IsSym(ts[i + 1], {"("})
    THEN LET g == StdFactor(ts, i + 1)
         IN  IF g.ok THEN Parsed(g.pos, Signed(ts[i].sym, g.val), g.dz, TRUE) ELSE Unparsed
    ELSE IF IsSym(ts[i], {"("})
    THEN LET e == StdExpr(ts, i + 1)
         IN  IF e.ok /\ e.pos <= Len(ts) /\ IsSym(ts[e.pos], {")"})
             THEN Parsed(e.pos + 1, e.val, e.dz, e.ug)
             ELSE Unparsed
    ELSE Unparsed

StdTermRest(ts, l) ==
    IF l.ok /\ l.pos <= Len(ts) /\ IsSym(ts[l.pos], {"*", "/"})
    THEN LET r == StdFactor(ts, l.pos + 1)
         IN  IF r.ok THEN StdTermRest(ts, StdApply(ts[l.pos].sym, l, r)) ELSE Unparsed
    ELSE l

StdTerm(ts, i) == StdTermRest(ts, StdFactor(ts, i))

StdExprRest(ts, l) ==
    IF l.ok /\ l.pos <= Len(ts) /\ IsSym(ts[l.pos], {"+", "-"})
    THEN LET r == StdTerm(ts, l.pos + 1)
         IN  IF r.ok THEN StdExprRest(ts, StdApply(ts[l.pos].sym, l, r)) ELSE Unparsed
    ELSE l

StdExpr(ts, i) == StdExprRest(ts, StdTerm(ts, i))

\* the whole sequence is one expression
Standard(ts) ==
    LET r == StdExpr(ts, 1)
    IN  IF r.ok /\ r.pos = Len(ts) + 1 THEN r ELSE Unparsed

\* a well-formed infix expression: numbers, sign-prefixed numbers, binary
\* operators and balanced parentheses
WellFormed(ts) == LET r == Standard(ts) IN r.ok /\ ~r.ug

\* safe_evaluate_expression has returned from a call with a str argument in
\* which no stage met an unanticipated failure
Returned == pc \in {"returned", "done"} /\ expression.type = "str" /\ fault = "none"

\* tokenize returned a token list
Tokenized == tokens # <<>>

\* C1: a well-formed infix expression in which no division has a zero right
\* operand evaluates to the value of the standard evaluation (multiplication
\* and division before addition and subtraction, equal precedence left to
\* right, parentheses first, left operand <op> right operand), and
\* calculator_tool returns that value.
C1_StandardValue ==
    LET std == Standard(tokens)
    IN  (Returned /\ Tokenized /\ std.ok /\ ~std.ug /\ ~std.dz)
            => /\ result = Ok(std.val)
               /\ pc = "done" => (response.kind = "return" /\ response.value = std.val)

\* a parenthesised difference divided or multiplied: (a op b) op c with the
\* group overriding precedence
C1_Witness ==
    /\ Returned /\ pc = "done" /\ Tokenized /\ WellFormed(tokens)
    /\ Len(tokens) >= 7
    /\ IsSym(tokens[1], {"("}) /\ IsSym(tokens[3], {"+", "-"}) /\ IsSym(tokens[5], {")"})
    /\ IsSym(tokens[6], {"*", "/"})
    /\ response.kind = "return"
    /\ Len(applied) >= 2

\* C2: an operator / whose second operand is zero ends the evaluation with
\* DivisionByZeroError without the division being performed, so no value is
\* returned from an evaluation that divided by zero; a well-formed expression
\* with a zero divisor never yields a value.
C2_DivisionByZero ==
    (Returned /\ "evaluate_rpn" \in {ran[i] : i \in 1..Len(ran)})
        => /\ \A i \in 1..Len(applied) :
                 (applied[i].op = "/" /\ IsZero(applied[i].op2))
                     => /\ ~applied[i].applied
                        /\ i = Len(applied)
                        /\ result.kind = "DivisionByZeroError"
           /\ result.kind = "DivisionByZeroError"
                 => /\ applied # <<>>
                    /\ applied[Len(applied)].op = "/"
                    /\ IsZero(applied[Len(applied)].op2)
           /\ LET std == Standard(tokens)
              IN  (std.ok /\ ~std.ug /\ std.dz) => result.kind = "DivisionByZeroError"

\* a division by a zero that is itself computed, met after an operator was applied
C2_Witness ==
    /\ Returned /\ pc = "done"
    /\ result.kind = "DivisionByZeroError"
    /\ Len(applied) >= 2
    /\ applied[1].applied
    /\ response.code = ERROR_DIVISION_BY_ZERO

(***************************************************************************)
(* The input read as characters.                                           *)
(***************************************************************************)
SupportedChars == Digits \cup {"."} \cup OperatorChars \cup Whitespace

OnlySupported(e) == \A i \in 1..Len(e) : e[i] \in SupportedChars

\* number of '(' minus number of ')' among the first k characters
ParenDepth(e, k) ==
    Cardinality({i \in 1..k : e[i] = "("}) - Cardinality({i \in 1..k : e[i] = ")"})

\* every ')' has an earlier unmatched '(' and every '(' is closed
Balanced(e) ==
    /\ \A k \in 1..Len(e) : ParenDepth(e, k) >= 0
    /\ ParenDepth(e, Len(e)) = 0

HasRun(stage) == \E i \in 1..Len(ran) : ran[i] = stage

\* C3 as stated: a non-empty input of supported characters with unbalanced
\* parentheses fails with UnbalancedParenthesesError, and that error is never
\* raised for an input with balanced parentheses.
C3_UnbalancedAsStated ==
    Returned =>
        /\ (expression.s # <<>> /\ OnlySupported(expression.s) /\ ~Balanced(expression.s))
               => result.kind = "UnbalancedParenthesesError"
        /\ result.kind = "UnbalancedParenthesesError" => ~Balanced(expression.s)

\* C3 amended: a non-empty input that tokenize accepts (supported characters,
\* every '.' part of a number) with unbalanced parentheses fails with
\* UnbalancedParenthesesError, and that error is never raised for an input
\* with balanced parentheses.
C3_UnbalancedOfTokenized ==
    Returned =>
        /\ (Tokenized /\ ~Balanced(expression.s))
               => result.kind = "UnbalancedParenthesesError"
        /\ result.kind = "UnbalancedParenthesesError" => ~Balanced(expression.s)

\* an unclosed '(' around a number and an operator
C3_Witness ==
    /\ Returned /\ pc = "done"
    /\ ~Balanced(expression.s)
    /\ \A k \in 1..Len(expression.s) : ParenDepth(expression.s, k) >= 0
    /\ Len(tokens) >= 3
    /\ \E i \in 1..Len(tokens) : IsNumber(tokens[i])
    /\ result.kind = "UnbalancedParenthesesError"
    /\ response.code = ERROR_INVALID_ARITHMETIC_EXPRESSION

\* C4: a string over the supported alphabet that is not a well-formed infix
\* expression fails with InvalidExpressionError or one of its refinements and
\* never returns a number.
C4_MalformedRejected ==
    (Returned /\ OnlySupported(expression.s) /\ ~(Tokenized /\ WellFormed(tokens)))
        => /\ result.kind # "ok"
           /\ IsInstance(result.kind, "InvalidExpressionError")

\* C5: an empty RPN sequence for tokens that contain a number fails with
\* InvalidExpressionError ("numbers present but empty RPN"), and the input
\* "5 ()" fails with InvalidExpressionError.
C5_NumbersButEmptyRpn ==
    Returned =>
        /\ (HasRun("infix_to_rpn") /\ rpn_expression = <<>>
                /\ result.kind # "UnbalancedParenthesesError"
                /\ \E i \in 1..Len(tokens) : IsNumber(tokens[i]))
               => result = Raise("InvalidExpressionError",
                      <<"Expression with numbers resulted in empty RPN (e.g. '5 ()').">>)
        /\ expression.s = <<"5", " ", "(", ")">> => result.kind = "InvalidExpressionError"

\* C6: the empty string, a whitespace-only string and balanced parentheses
\* without any number or operator fail with InvalidExpressionError; in the
\* first two cases the tokenizer is never run.
C6_EmptyContent ==
    Returned =>
        /\ (\A i \in 1..Len(expression.s) : expression.s[i] \in Whitespace)
               => /\ result.kind = "InvalidExpressionError"
                  /\ ~HasRun("tokenize")
                  /\ tokens = <<>>
        /\ (/\ expression.s # <<>>
            /\ \A i \in 1..Len(expression.s) : expression.s[i] \in {"(", ")"} \cup Whitespace
            /\ \E i \in 1..Len(expression.s) : expression.s[i] \in {"(", ")"}
            /\ Balanced(expression.s))
               => /\ result.kind = "InvalidExpressionError"
                  /\ HasRun("infix_to_rpn")
                  /\ ~HasRun("evaluate_rpn")

\* a whitespace-only input refused before tokenize, reported by calculator_tool
C6_Witness ==
    /\ Returned /\ pc = "done"
    /\ expression.s # <<>>
    /\ \A i \in 1..Len(expression.s) : expression.s[i] \in Whitespace
    /\ ran = <<"strip">>
    /\ response.code = ERROR_INVALID_ARITHMETIC_EXPRESSION

(***************************************************************************)
(* The unary-folding rule, stated over the indices of the token list.      *)
(***************************************************************************)
\* the indices of the signs that have no operand to their left and a number
\* to their right
SignIndices(ts) ==
    { i \in 1..Len(ts) :
        /\ ts[i].kind = "OPERATOR" /\ ts[i].sym \in {"+", "-"}
        /\ (i = 1 \/ (ts[i - 1].kind = "OPERATOR" /\ ts[i - 1].sym \in {"(", "+", "-", "*", "/"}))
        /\ i < Len(ts) /\ ts[i + 1].kind = "NUMBER" }

\* the indices that survive: all but the numbers taken by a sign
KeptIndices(ts) == { i \in 1..Len(ts) : (i - 1) \notin SignIndices(ts) }

\* the k-th smallest element of a set of integers
Nth(S, k) == CHOOSE x \in S : Cardinality({y \in S : y < x}) = k - 1

Folded(ts) ==
    LET S == SignIndices(ts)
        K == KeptIndices(ts)
    IN  [k \in 1..Cardinality(K) |->
            LET i == Nth(K, k)
            IN  IF i \in S
                THEN [kind |-> "NUMBER", sym |-> "",
                      val |-> IF ts[i].sym = "-"
                              THEN <<-ts[i + 1].val[1], ts[i + 1].val[2]>>
                              ELSE ts[i + 1].val]
                ELSE ts[i]]

\* C7: the folding pass folds a + or - at index i with the next token into one
\* signed number exactly when i is the first index or the token before is one
\* of ( + - * /, and the token after is a number; every other token is copied;
\* so "5*-2" is -10, "1 - -1" is 2 and "-10 / -2" is 5.
C7_UnaryFolding ==
    (Returned /\ HasRun("infix_to_rpn"))
        => /\ processed_tokens = Folded(tokens)
           /\ expression.s = <<"5", "*", "-", "2">> => result = Ok(<<-10, 1>>)
           /\ expression.s = <<"1", " ", "-", " ", "-", "1">> => result = Ok(<<2, 1>>)
           /\ expression.s = <<"-", "1", "0", " ", "/", " ", "-", "2">> => result = Ok(<<5, 1>>)

\* a binary minus after a number followed by a folded sign: a - -b
C7_Witness ==
    /\ Returned /\ pc = "done"
    /\ Len(tokens) = 4 /\ Len(processed_tokens) = 3
    /\ IsNumber(tokens[1]) /\ IsSym(tokens[2], {"-"}) /\ IsSym(tokens[3], {"-"})
    /\ IsNumber(tokens[4])
    /\ IsSym(processed_tokens[2], {"-"})
    /\ processed_tokens[3] = Number(Neg(tokens[4].val))
    /\ ~IsZero(tokens[4].val)
    /\ response.kind = "return"

\* well formed except that at least one sign stands directly before a group
SignBeforeGroup(ts) == LET r == Standard(ts) IN r.ok /\ r.ug

\* a sign with no operand to its left stands directly before a '('
StraySign(ts) ==
    \E i \in 1..(Len(ts) - 1) :
        /\ IsSym(ts[i], {"+", "-"})
        /\ (i = 1 \/ IsSym(ts[i - 1], {"(", "+", "-", "*", "/"}))
        /\ IsSym(ts[i + 1], {"("})

\* C8 as stated: an expression well formed except for a unary sign directly
\* before a parenthesized group keeps the sign as an operator token and fails
\* with InvalidExpressionError.
C8_SignBeforeGroupInvalid ==
    (Returned /\ Tokenized /\ SignBeforeGroup(tokens))
        => /\ StraySign(processed_tokens)
           /\ result.kind = "InvalidExpressionError"

\* C8 amended: such an expression is never evaluated to a number; the sign is
\* kept as an operator token and the call fails with InvalidExpressionError,
\* or with DivisionByZeroError when the evaluator meets a division by zero
\* before it runs out of operands.
C8_SignBeforeGroupFails ==
    (Returned /\ Tokenized /\ SignBeforeGroup(tokens))
        => /\ StraySign(processed_tokens)
           /\ result.kind \in {"InvalidExpressionError", "DivisionByZeroError"}
           /\ result.kind = "DivisionByZeroError"
                 => /\ applied # <<>>
                    /\ ~applied[Len(applied)].applied
           /\ pc = "done" => response.kind = "FastMCPError"

\* a product with a negated group, refused for want of operands
C8_Witness ==
    /\ Returned /\ pc = "done" /\ Tokenized
    /\ SignBeforeGroup(tokens)
    /\ Len(tokens) >= 6
    /\ IsNumber(tokens[1]) /\ IsSym(tokens[2], {"*"}) /\ IsSym(tokens[3], {"-"})
    /\ IsSym(tokens[4], {"("})
    /\ result.kind = "InvalidExpressionError"
    /\ response.code = ERROR_INVALID_ARITHMETIC_EXPRESSION

(***************************************************************************)
(* calculator_tool                                                         *)
(***************************************************************************)
\* C9: calculator_tool reports DivisionByZeroError with -32001, the errors
\* InvalidExpressionError, UnbalancedParenthesesError, UnknownCharacterError
\* and SafeEvalError with -32000, a non-string argument with -32602 without
\* running the evaluator, never one kind with the code of another, and the
\* payload's input_expression is the expression string passed in.
C9_ErrorCodes ==
    (pc = "done" /\ entry = "calculator_tool")
        => /\ expression.type # "str"
                 => /\ response.kind = "FastMCPError"
                    /\ response.code = -32602
                    /\ ran = <<>> /\ result = NoOutcome
           /\ expression.type = "str"
                 => /\ result.kind = "DivisionByZeroError" <=> response.code = -32001
                    /\ result.kind \in {"InvalidExpressionError", "UnbalancedParenthesesError",
                                        "UnknownCharacterError", "SafeEvalError"}
                          <=> response.code = -32000
                    /\ result.kind = "ok" <=> response.kind = "return"
                    /\ response.kind = "FastMCPError"
                          => /\ response.input_expression = expression
                             /\ response.code \in {-32000, -32001}
                             /\ response.message = result.msg

\* a division by zero reported with its own code and the input string
C9_Witness ==
    /\ pc = "done" /\ entry = "calculator_tool"
    /\ result.kind = "DivisionByZeroError"
    /\ response.code = -32001
    /\ response.input_expression = expression
    /\ Len(expression.s) >= 3

\* a stage of the call met an unanticipated failure
FaultRaised ==
    /\ fault \in {"tokenize", "infix_to_rpn", "evaluate_rpn"} => HasRun(fault)
    /\ fault = "operator" => (applied # <<>> /\ applied[Len(applied)].applied)
    /\ fault # "none"

InText(frag, msg) == \E i \in 1..Len(msg) : msg[i] = frag

\* C10: an unanticipated failure inside the evaluation pipeline reaches the
\* caller of calculator_tool as the internal-error code -32603 with the
\* generic internal-error message, the failure text only in the error details.
C10_InternalError ==
    (pc = "done" /\ entry = "calculator_tool" /\ FaultRaised)
        => /\ response.kind = "FastMCPError"
           /\ response.code = -32603
           /\ response.message = <<"An unexpected internal error occurred.">>
           /\ ~InText(FaultText, response.message)
           /\ InText(FaultText, response.error_details)

(***************************************************************************)
(* The order of the stages.                                                *)
(***************************************************************************)
Stages == <<"strip", "tokenize", "infix_to_rpn", "evaluate_rpn">>

\* the characters outside the alphabet of digits, '.', operators and blanks
UnsupportedAt(e) == { p \in 1..Len(e) : e[p] \notin SupportedChars }

\* first position of the run of digits that ends at position p
RunStart(e, p) ==
    CHOOSE q \in 1..p :
        /\ \A j \in q..p : e[j] \in Digits
        /\ (q = 1 \/ e[q - 1] \notin Digits)

\* the '.' at position p belongs to a number: a digit follows it, or it
\* closes the integer part of a number (digits not themselves after a '.')
DotInNumber(e, p) ==
    \/ p < Len(e) /\ e[p + 1] \in Digits
    \/ /\ p > 1 /\ e[p - 1] \in Digits
       /\ LET q == RunStart(e, p - 1) IN q = 1 \/ e[q - 1] # "."

\* the characters that no token pattern accepts where they stand
RejectedAt(e) ==
    UnsupportedAt(e) \cup { p \in 1..Len(e) : e[p] = "." /\ ~DotInNumber(e, p) }

Leftmost(S) == CHOOSE p \in S : \A q \in S : p <= q

LeadingBlanks(e) ==
    Cardinality({ p \in 1..Len(e) : \A j \in 1..p : e[j] \in Whitespace })

NonBlank(e) == \E p \in 1..Len(e) : e[p] \notin Whitespace

\* the stages run in order, and each error kind comes from its own stage
StageOrder ==
    /\ Len(ran) <= 4 /\ ran = SubSeq(Stages, 1, Len(ran))
    /\ Returned =>
          /\ result.kind = "UnknownCharacterError" => ran = SubSeq(Stages, 1, 2)
          /\ result.kind = "UnbalancedParenthesesError" => ran = SubSeq(Stages, 1, 3)
          /\ (result.kind = "DivisionByZeroError" \/ HasRun("evaluate_rpn"))
                => /\ ran = Stages
                   /\ tokens # <<>> /\ rpn_expression # <<>>
                   /\ Balanced(expression.s)
                   /\ RejectedAt(expression.s) = {}

\* C11 as stated: the stages run in order and stop at the first failure; an
\* input with an unsupported character yields UnknownCharacterError for the
\* leftmost such character, an input of supported characters with unbalanced
\* parentheses yields UnbalancedParenthesesError, and the evaluator's errors
\* appear only when both earlier stages succeeded.
C11_FirstFailureAsStated ==
    /\ StageOrder
    /\ (Returned /\ UnsupportedAt(expression.s) # {})
          => /\ result.kind = "UnknownCharacterError"
             /\ result.msg[2] = expression.s[Leftmost(UnsupportedAt(expression.s))]
    /\ (Returned /\ NonBlank(expression.s) /\ UnsupportedAt(expression.s) = {}
            /\ ~Balanced(expression.s))
          => result.kind = "UnbalancedParenthesesError"

\* C11 amended: the same, the characters that fail tokenize being the
\* unsupported ones and every '.' that is not part of a number.
C11_FirstFailure ==
    /\ StageOrder
    /\ (Returned /\ RejectedAt(expression.s) # {})
          => LET p == Leftmost(RejectedAt(expression.s))
             IN  /\ result.kind = "UnknownCharacterError"
                 /\ result.msg[2] = expression.s[p]
                 /\ result.val[1] = p - 1 - LeadingBlanks(expression.s)
                 /\ tokens = <<>>
    /\ (Returned /\ NonBlank(expression.s) /\ RejectedAt(expression.s) = {}
            /\ ~Balanced(expression.s))
          => /\ result.kind = "UnbalancedParenthesesError"
             /\ applied = <<>>

\* an unknown character reported although a division by zero and an
\* unclosed parenthesis stand before it
C11_Witness ==
    /\ Returned /\ pc = "done"
    /\ result.kind = "UnknownCharacterError"
    /\ Len(expression.s) >= 4
    /\ expression.s[1] = "(" /\ expression.s[2] = "/" /\ expression.s[3] = "0"
    /\ expression.s[4] = "@"
    /\ ran = SubSeq(Stages, 1, 2)

(***************************************************************************)
(* The outcomes of safe_evaluate_expression.                               *)
(***************************************************************************)
Taxonomy ==
    {"SafeEvalError", "InvalidExpressionError", "UnbalancedParenthesesError",
     "UnknownCharacterError", "DivisionByZeroError"}

\* safe_evaluate_expression was called and has returned or raised
SafeEvalDone == pc = "returned" \/ (pc = "done" /\ expression.type = "str")

\* C12: safe_evaluate_expression ends with a float, with TypeError (if and
\* only if the argument is no string, before any stage runs) or with an error
\* of the SafeEvalError taxonomy; for a string argument any other exception
\* raised inside the stages is rewrapped as SafeEvalError with its message.
C12_Outcomes ==
    SafeEvalDone =>
        /\ result.kind \in {"ok", "TypeError"} \cup Taxonomy
        /\ result.kind = "ok" => result.val[2] > 0
        /\ result.kind = "TypeError" <=> expression.type # "str"
        /\ result.kind = "TypeError"
              => /\ ran = <<>> /\ stripped_expression = <<>> /\ tokens = <<>>
                 /\ rpn_expression = <<>> /\ applied = <<>>
        /\ result.kind \in Taxonomy => IsInstance(result.kind, "SafeEvalError")
        /\ (expression.type = "str" /\ FaultRaised)
              => /\ result.kind = "SafeEvalError"
                 /\ InText(FaultText, result.msg)

\* a failure inside evaluate_rpn, after two stages succeeded, rewrapped
C12_Witness ==
    /\ SafeEvalDone
    /\ fault = "evaluate_rpn" /\ ran = Stages
    /\ result.kind = "SafeEvalError"
    /\ InText("MemoryError", result.msg) /\ InText(FaultText, result.msg)

InsertBlank(e, p) == SubSeq(e, 1, p) \o <<" ">> \o SubSeq(e, p + 1, Len(e))
RemoveAt(e, p) == SubSeq(e, 1, p - 1) \o SubSeq(e, p + 1, Len(e))

\* the place after the first p characters of e is the start, the end, or lies
\* between two neighbours (blanks aside) one of which is an operator or a
\* parenthesis
Separable(e, p) ==
    LET L == { q \in 1..p : e[q] # " " }
        R == { q \in (p + 1)..Len(e) : e[q] # " " }
    IN  \/ L = {}
        \/ R = {}
        \/ e[CHOOSE q \in L : \A x \in L : x <= q] \in OperatorChars
        \/ e[CHOOSE q \in R : \A x \in R : q <= x] \in OperatorChars

\* the same token sequence and the same outcome (value or error kind) as
\* this call
SameAsCall(e) ==
    LET t == tokenize(e, "none")
        o == safe_evaluate_expression(e)
    IN  /\ t.out = tokens
        /\ o.kind = result.kind
        /\ o.kind = "ok" => o.val = result.val

\* C14: whitespace yields no token and only separates tokens.  For every
\* input, putting a blank in, or taking one out, at the start, at the end or
\* between two tokens of which at least one is an operator or a parenthesis
\* leaves the token sequence of tokenize and the outcome of
\* safe_evaluate_expression (its value or its error kind) as they are.
C14_Whitespace ==
    (Returned /\ pc = "returned") =>
        LET e == expression.s IN
        /\ SameAsCall(e)
        /\ \A p \in 0..Len(e) : Separable(e, p) => SameAsCall(InsertBlank(e, p))
        /\ \A p \in 1..Len(e) :
               (e[p] = " " /\ Separable(e, p)) => SameAsCall(RemoveAt(e, p))

\* the padded sum of the tests has returned 2
C14_Witness ==
    /\ Returned /\ pc = "returned"
    /\ expression.s = <<" ", " ", "1", " ", "+", " ", " ", " ", "1", " ", " ">>
    /\ tokens = <<Number(<<1, 1>>), Symbol("+"), Number(<<1, 1>>)>>
    /\ result = Ok(<<2, 1>>)

\* the token at index i has an operand, a number or a ')', directly to its left
OperandLeft(ts, i) == i > 1 /\ (IsNumber(ts[i - 1]) \/ IsSym(ts[i - 1], {")"}))

\* the token at index i is the last one or the token after it is no number
NoNumberRight(ts, i) == i = Len(ts) \/ ~IsNumber(ts[i + 1])

\* C15 as stated: after the folding pass every surviving + or - symbol has an
\* operand, a number or a ')', directly to its left.
C15_NoStraySigns ==
    (Returned /\ HasRun("infix_to_rpn"))
        => \A k \in 1..Len(processed_tokens) :
               IsSym(processed_tokens[k], {"+", "-"}) => OperandLeft(processed_tokens, k)

\* C15: after the folding pass every surviving + or - symbol is the token the
\* input sequence had at that place, with the same left neighbour kind, and
\* either has an operand directly to its left or is a sign the pass could not
\* fold, because it is the last token or the token after it in the input
\* sequence is no number; and every such sign of the input sequence survives.
C15_SurvivingSigns ==
    (Returned /\ HasRun("infix_to_rpn"))
        => LET ts == tokens
               ps == processed_tokens
               K  == KeptIndices(ts)
           IN  /\ Len(ps) = Cardinality(K)
               /\ \A k \in 1..Len(ps) :
                      IsSym(ps[k], {"+", "-"})
                          => LET i == Nth(K, k)
                             IN  /\ ps[k] = ts[i]
                                 /\ OperandLeft(ps, k) <=> OperandLeft(ts, i)
                                 /\ OperandLeft(ps, k) \/ NoNumberRight(ts, i)
               /\ \A i \in 1..Len(ts) :
                      (IsSym(ts[i], {"+", "-"}) /\ ~OperandLeft(ts, i) /\ NoNumberRight(ts, i))
                          => /\ i \in K
                             /\ LET k == Cardinality({ x \in K : x <= i })
                                IN  ps[k] = ts[i] /\ ~OperandLeft(ps, k)

\* a sign that opens the expression before a group has survived, and the
\* expression has been rejected
C15_Witness ==
    /\ Returned /\ HasRun("infix_to_rpn")
    /\ Len(processed_tokens) >= 4
    /\ IsSym(processed_tokens[1], {"-"})
    /\ IsSym(processed_tokens[2], {"("})
    /\ IsNumber(processed_tokens[3])
    /\ result.kind = "InvalidExpressionError"

=============================================================================
